---- MODULE Spec2Model ----
(***************************************************************************)
(* Model of the batched bulk-deletion pipeline of geo_mcp_server:          *)
(*   scripts/clear-dao-space.ts      (governed path: propose/vote/execute) *)
(*   scripts/clear-personal-space.ts (direct path: publish)                *)
(* The remote space, the chain and the governance contract are the         *)
(* environment; every await of the scripts is one step of a run.           *)
(***************************************************************************)
EXTENDS Integers, Sequences, FiniteSets, TLC

VARIABLES
    cfg,          \* the CLI flags of the run(s)
    active,       \* the runs (processes) that exist in this behaviour
    space,        \* remote space: [relations, entities] in upstream order;
                  \* entities is a list of runs of like entities (see Segment)
    txs,          \* on-chain transactions in submission order
    proposals,    \* governance proposals, indexed by proposal id
    votesNeeded,  \* votes a proposal needs to reach the support threshold
    accountsMade, \* number of author ids generated by Account.make so far
    progressLog,  \* the append-only progress log file
    run,          \* per run: program counter and locals of main/runDeletionPass
    faults,       \* number of environment faults so far (errors, timeouts, reverts)
    planIn,       \* input of the batch planner (planner specification)
    planOut,      \* output of the batch planner (planner specification)
    listing,      \* one call of listAllEntities / listAllRelations (paging
                  \* specification): arguments, loop state, requests, result
    mcp,          \* the MCP server (tool specification): the EditSession, the
                  \* tool call in flight, the transactions sent, the tool results
    uuid,         \* an id and the results of the UUID helpers (helper specification)
    chunking      \* one call of chunk (chunk specification): arguments, loop state

vars == <<cfg, active, space, txs, proposals, votesNeeded, accountsMade,
          progressLog, run, faults, planIn, planOut, listing, mcp, uuid,
          chunking>>

\* ------------------------------------------------------------------------
\* Bounds of the model
\* ------------------------------------------------------------------------
MaxRel == 1
MaxEnt == 1
MaxBatchSize == 2
MaxPasses == 2
MaxFaults == 1
MaxPlanRel == 3
MaxPlanEnt == 3
MaxPlanBatchSize == 4
MaxPages == 2
MaxSessionOps == 2
MaxCalls == 3
MaxResize == 1
MaxChunkLen == 4
MaxChunkSize == 3
MaxExtraIterations == 2

\* ------------------------------------------------------------------------
\* Program constants
\* ------------------------------------------------------------------------
PageSize == 200
CHUNK_LIMIT == 50000
CONFIRM_THRESHOLD == 1000
DEFAULT_BATCH_SIZE == 5000
ACCOUNT_LOOKUP_FIRST == 10
DaoSleepMs == 4000
PersonalSleepMs == 2000
ACCOUNT_TYPE_ID == "cb69723f7456471aa8ad3e93ddc3edfe"
\* the Account type id as a dashed UUID and in upper case
DashedAccountTypeId == "cb69723f-7456-471a-a8ad-3e93ddc3edfe"
UpperAccountTypeId == "CB69723F7456471AA8AD3E93DDC3EDFE"
OtherTypeId == "othertype"
WantedTypeId == "wantedtype"
WalletName == "0xwallet"
Null == "null"
NoNumber == -999
NoId == 0
Runs == {1, 2}

Min(a, b) == IF a < b THEN a ELSE b
Max(a, b) == IF a > b THEN a ELSE b

\* JavaScript truthiness of a number-or-null flag value (0 and null are falsy)
Truthy(n) == n # NoNumber /\ n # 0

\* a ?? b
Coalesce(a, b) == IF a # NoNumber THEN a ELSE b

\* Array.prototype.slice(start, end) for any integers start and end
JsSlice(arr, start, end) ==
    LET b == IF start < 0 THEN Max(Len(arr) + start, 0) ELSE Min(start, Len(arr))
        e == IF end < 0 THEN Max(Len(arr) + end, 0) ELSE Min(end, Len(arr))
    IN  IF b >= e THEN <<>> ELSE SubSeq(arr, b + 1, e)

RECURSIVE Flatten(_)
Flatten(ss) == IF ss = <<>> THEN <<>> ELSE Head(ss) \o Flatten(Tail(ss))

Range(s) == {s[k] : k \in 1..Len(s)}

\* ------------------------------------------------------------------------
\* Pure functions of the scripts
\* ------------------------------------------------------------------------

\* chunk(arr, size): for (i = 0; i < arr.length; i += size) push(slice(i, i+size))
RECURSIVE ChunkFrom(_, _, _)
ChunkFrom(arr, size, i) ==
    IF i < Len(arr)
    THEN <<JsSlice(arr, i, i + size)>> \o ChunkFrom(arr, size, i + size)
    ELSE <<>>

\* chunk with the loop started at index 1 instead of 0
chunkFromOne(arr, size) == ChunkFrom(arr, size, 1)

chunk(arr, size) == ChunkFrom(arr, size, 0)

\* `first` of the next page request: at most 200 and at most the remaining cap
PageFirst(limit, st) ==
    LET remaining == IF Truthy(limit) THEN limit - Len(st.out) ELSE PageSize
    IN  Min(PageSize, remaining)

\* one iteration of the paging loop of listAllEntities / listAllRelations over
\* the upstream list; st is [out, after, done], done once the loop has ended
PageStep(upstream, limit, st) ==
    LET first     == PageFirst(limit, st)
        nodes     == JsSlice(upstream, st.after, st.after + first)
        hasNext   == st.after + first < Len(upstream)
        out2      == st.out \o nodes
    IN  IF st.done THEN st
        ELSE IF first <= 0 THEN [st EXCEPT !.done = TRUE]
        ELSE [out   |-> out2,
              after |-> st.after + Len(nodes),
              done  |-> ~hasNext \/ (Truthy(limit) /\ Len(out2) >= limit)]

\* up to n iterations of the loop, stopping when it has ended (the first half
\* of the iterations is computed before the second half is entered)
RECURSIVE PageSteps(_, _, _, _)
PageSteps(upstream, limit, st, n) ==
    IF n <= 1 THEN PageStep(upstream, limit, st)
    ELSE LET mid == PageSteps(upstream, limit, st, n \div 2)
         IN  IF mid.done THEN mid
             ELSE PageSteps(upstream, limit, mid, n - (n \div 2))

\* the whole loop: it ends within Len(upstream) / PageSize + 1 iterations
ListPages(upstream, limit) ==
    PageSteps(upstream, limit, [out |-> <<>>, after |-> 0, done |-> FALSE],
              (Len(upstream) \div PageSize) + 1).out

listAll(upstream, limit) ==
    LET out == ListPages(upstream, limit)
    IN  IF Truthy(limit) THEN JsSlice(out, 0, limit) ELSE out

\* /^0x[a-fA-F0-9]{40}$/i.test(name), on the names of the model
IsWalletName(name) == name = WalletName

\* a filter that keeps every entity
NothingProtected(e) == e = e

\* the protected-entity filter of runDeletionPass
NotProtected(e) ==
    /\ ~(ACCOUNT_TYPE_ID \in e.typeIds)
    /\ ~(e.name # Null /\ IsWalletName(e.name))

\* "Trim to total limit if needed"
TrimRelations(relations, entities, effectiveLimit) ==
    IF Truthy(effectiveLimit)
       /\ Len(relations) + Len(entities) > effectiveLimit
       /\ Len(relations) >= effectiveLimit
    THEN JsSlice(relations, 0, effectiveLimit)
    ELSE relations

TrimEntities(relations, entities, effectiveLimit) ==
    IF Truthy(effectiveLimit) /\ Len(relations) + Len(entities) > effectiveLimit
    THEN IF Len(relations) >= effectiveLimit
         THEN <<>>
         ELSE JsSlice(entities, 0, effectiveLimit - Len(relations))
    ELSE entities

\* the deletions array: relations first, then entities
Deletions(relations, entities) ==
    [k \in 1..Len(relations) |-> [kind |-> "relation", id |-> relations[k].id,
                                  propertyIds |-> {}]]
    \o
    [k \in 1..Len(entities) |-> [kind |-> "entity", id |-> entities[k].id,
                                 propertyIds |-> entities[k].propertyIds]]

\* totalOpsEstimate as the script computes it
TotalOpsEstimate(relations, entities) == Len(relations) + Len(entities) * 2

\* ops built for one deletion item inside the batch loop
ItemOps(item) ==
    IF item.kind = "relation"
    THEN <<[type |-> "deleteRelation", id |-> item.id]>>
    ELSE (IF item.propertyIds # {}
          THEN <<[type |-> "updateEntity", id |-> item.id]>>
          ELSE <<>>)
         \o <<[type |-> "deleteEntity", id |-> item.id]>>

\* the ops of a batch: the ops of its items in order (computed by halving,
\* which gives the same list as the loop over the items)
RECURSIVE BatchOps(_)
BatchOps(batch) ==
    IF batch = <<>> THEN <<>>
    ELSE IF Len(batch) = 1 THEN ItemOps(batch[1])
    ELSE LET half == Len(batch) \div 2
         IN  BatchOps(SubSeq(batch, 1, half)) \o BatchOps(SubSeq(batch, half + 1, Len(batch)))

\* ------------------------------------------------------------------------
\* Entities and relations of the model
\* ------------------------------------------------------------------------
Relation(n) == [id |-> n]
PlainEntity(n) == [id |-> n, name |-> Null, typeIds |-> {OtherTypeId}, propertyIds |-> {}]
PropsEntity(n) == [id |-> n, name |-> "named", typeIds |-> {OtherTypeId},
                   propertyIds |-> {"p1"}]
TypedEntity(n) == [id |-> n, name |-> Null, typeIds |-> {WantedTypeId}, propertyIds |-> {}]
WalletEntity(n) == [id |-> n, name |-> WalletName, typeIds |-> {OtherTypeId},
                    propertyIds |-> {}]
AccountEntity(n) == [id |-> n, name |-> WalletName, typeIds |-> {ACCOUNT_TYPE_ID},
                     propertyIds |-> {"p1"}]

RelationList(n) == [k \in 1..n |-> Relation(k)]

\* The entity list of a space is kept as a list of segments: a segment stands
\* for `count` consecutive entities that are like `entity` and have the ids
\* entity.id, entity.id + 1, ...
Segment(e, n) == [entity |-> e, count |-> n]

Single(e) == Segment(e, 1)

SegmentEntities(seg) == [j \in 1..seg.count |-> [seg.entity EXCEPT !.id = @ + j - 1]]

\* the entities of a segment list in upstream order
Entities(segs) == Flatten([k \in 1..Len(segs) |-> SegmentEntities(segs[k])])

SegmentIds(seg) == seg.entity.id .. (seg.entity.id + seg.count - 1)

\* entity lists of length n whose k-th entity has id 100 + k
EntityLists(n, Makers) ==
    { [k \in 1..n |-> IF f[k] = "plain" THEN PlainEntity(100 + k)
                      ELSE IF f[k] = "props" THEN PropsEntity(100 + k)
                      ELSE AccountEntity(100 + k)] : f \in [1..n -> Makers] }

\* ------------------------------------------------------------------------
\* The remote space, the chain and the governance contract (environment)
\* ------------------------------------------------------------------------

\* getTotalCounts: the totalCount of both connections
RECURSIVE CountEntities(_)
CountEntities(segs) ==
    IF segs = <<>> THEN 0 ELSE Head(segs).count + CountEntities(Tail(segs))

getTotalCounts(sp) ==
    [entities |-> CountEntities(sp.entities), relations |-> Len(sp.relations)]

Reverse(s) == [k \in 1..Len(s) |-> s[Len(s) + 1 - k]]

\* first id of a sequence of nodes that is an account or has a wallet name, or NoId
RECURSIVE FirstAccount(_)
FirstAccount(nodes) ==
    IF nodes = <<>> THEN NoId
    ELSE IF ACCOUNT_TYPE_ID \in Head(nodes).typeIds THEN Head(nodes).id
    ELSE IF Head(nodes).name # Null /\ IsWalletName(Head(nodes).name) THEN Head(nodes).id
    ELSE FirstAccount(Tail(nodes))

\* findExistingAccountId when the query succeeds: the 10 most recently updated
\* entities (the upstream list is in creation order, newest last)
findExistingAccountId(sp) ==
    FirstAccount(JsSlice(Reverse(Entities(sp.entities)), 0, ACCOUNT_LOOKUP_FIRST))

\* Account.make: a newly generated account id and the ops that create it
AccountMakeId(made) == 900 + made + 1
AccountMakeOps(made) == <<[type |-> "createAccount", id |-> AccountMakeId(made)]>>

\* effect of an edit on the space once it is executed: relations and entities
\* with a delete op disappear, entities with an unset op lose their values,
\* and a created account entity is appended
OpIds(ops, type) == {ops[k].id : k \in {j \in 1..Len(ops) : ops[j].type = type}}

\* a segment that an op refers to is split into single entities first
SplitTouched(segs, ids) ==
    Flatten([k \in 1..Len(segs) |->
               IF segs[k].count > 1 /\ SegmentIds(segs[k]) \cap ids # {}
               THEN [j \in 1..segs[k].count |-> Single(SegmentEntities(segs[k])[j])]
               ELSE <<segs[k]>>])

ApplyOps(sp, ops) ==
    LET deletedRelations == OpIds(ops, "deleteRelation")
        deletedEntities  == OpIds(ops, "deleteEntity")
        unsetEntities    == OpIds(ops, "updateEntity")
        segs             == SplitTouched(sp.entities, deletedEntities \cup unsetEntities)
        created          == SelectSeq(ops, LAMBDA o :
                                /\ o.type = "createAccount"
                                /\ \A k \in 1..Len(segs) : o.id \notin SegmentIds(segs[k]))
        updated          == [k \in 1..Len(segs) |->
                               IF segs[k].entity.id \in unsetEntities /\ segs[k].count = 1
                               THEN [segs[k] EXCEPT !.entity.propertyIds = {}]
                               ELSE segs[k]]
    IN  [relations |-> SelectSeq(sp.relations, LAMBDA x : x.id \notin deletedRelations),
         entities  |-> SelectSeq(updated, LAMBDA x : x.count > 1
                                                     \/ x.entity.id \notin deletedEntities)
                       \o [k \in 1..Len(created) |-> Single(AccountEntity(created[k].id))]]

ThresholdReached(p) == Cardinality(p.votes) >= votesNeeded

\* ------------------------------------------------------------------------
\* State of a run
\* ------------------------------------------------------------------------
NoCounts == [entities |-> 0, relations |-> 0]

\* an `empty` PassResult that reports one attempted op
EmptyResultOneOp ==
    [aborted |-> FALSE, opsAttempted |-> 1, batchesCompleted |-> 0,
     batchesFailed |-> 0, countsBefore |-> NoCounts, countsAfter |-> NoCounts]

\* the `empty` PassResult of runDeletionPass
EmptyResult ==
    [aborted |-> FALSE, opsAttempted |-> 0, batchesCompleted |-> 0,
     batchesFailed |-> 0, countsBefore |-> NoCounts, countsAfter |-> NoCounts]

\* no "DRY RUN Summary" has been printed
NoSummary == [relations |-> NoNumber, entities |-> NoNumber]

IdleRun ==
    [pc |-> "main", exitCode |-> NoNumber, pass |-> 0, phase |-> "pass",
     chunkLimit |-> NoNumber, skipConfirm |-> FALSE,
     countsBefore |-> NoCounts, entities |-> <<>>, relations |-> <<>>,
     batches |-> <<>>, totalOpsEstimate |-> 0,
     accountId |-> NoId, accountOps |-> <<>>, i |-> 0,
     completedBatches |-> 0, failedBatches |-> 0,
     proposalId |-> NoId, txHash |-> NoId,
     executed |-> "unread", thresholdReached |-> "unread",
     hasResult |-> FALSE, result |-> EmptyResult, drySummary |-> NoSummary,
     slept |-> <<>>, ok |-> "unasked"]

Configs(scripts, dry, all, limits, totals, yes, renames, sizes) ==
    [script : scripts, DRY_RUN : dry, ALL : all, LIMIT : limits,
     TOTAL_LIMIT : totals, YES : yes, RENAME_TO : renames,
     BATCH_SIZE : sizes, INCLUDE_ACCOUNTS : {FALSE},
     TYPE_FILTER : {Null}, EXCLUDE_TYPE_FILTER : {Null}]

\* spaces with up to maxRel relations and up to maxEnt deletable entities,
\* with or without an account entity left by an earlier run
Spaces(maxRel, maxEnt) ==
    { [relations |-> RelationList(nr),
       entities  |-> [k \in 1..Len(acc \o es) |-> Single((acc \o es)[k])]] :
        nr \in 0..maxRel,
        acc \in {<<>>, <<AccountEntity(100)>>},
        es \in UNION { EntityLists(n, {"plain", "props"}) : n \in 0..maxEnt } }

\* no call of the paging specification
IdleListing ==
    [upstream |-> <<>>, limit |-> NoNumber,
     st |-> [out |-> <<>>, after |-> 0, done |-> TRUE],
     requests |-> <<>>, returned |-> TRUE, result |-> <<>>]

\* no call of the chunk specification
IdleChunking ==
    [arr |-> <<>>, size |-> 1, i |-> 0, out |-> <<>>, returned |-> TRUE, aborted |-> FALSE]

\* a UUID helper that has not been applied
Unapplied == [ok |-> FALSE, value |-> <<"unapplied">>]

IdleUuid ==
    [input |-> <<>>, dashed |-> Unapplied, roundTrip |-> Unapplied,
     normalized |-> Unapplied, normalizedTwice |-> Unapplied]

\* the MCP server with a new EditSession and no tool call
NoCall == [tool |-> "none", pc |-> "idle", ops |-> <<>>]

IdleMcp ==
    [ops |-> <<>>, lastPublishedOps |-> <<>>, walletOk |-> FALSE, spaceId |-> FALSE,
     call |-> NoCall, sent |-> <<>>, results |-> <<>>]

InitPlanner ==
    /\ mcp = IdleMcp
    /\ uuid = IdleUuid
    /\ chunking = IdleChunking
    /\ listing = IdleListing
    /\ planIn = [relations |-> <<>>, entities |-> <<>>, size |-> 1]
    /\ planOut = [planned |-> FALSE, deletions |-> <<>>, batches |-> <<>>,
                  totalOpsEstimate |-> 0, ops |-> <<>>]

InitChain ==
    /\ txs = <<>>
    /\ proposals = <<>>
    /\ votesNeeded \in 1..2
    /\ accountsMade = 0
    /\ progressLog = <<>>
    /\ faults = 0

\* every flag combination of a dry run
DryConfigs ==
    Configs({"dao", "personal"}, {TRUE}, BOOLEAN, {NoNumber, 0, 1}, {NoNumber, 0, 1},
            BOOLEAN, BOOLEAN, 1..MaxBatchSize)

\* live runs: single pass or --all, with or without --rename
LiveConfigs ==
    Configs({"dao", "personal"}, {FALSE}, BOOLEAN, {NoNumber}, {NoNumber},
            {FALSE}, BOOLEAN, 1..MaxBatchSize)

\* live runs of the dao script with --total-limit, with or without --limit
\* and --all
LimitConfigs ==
    Configs({"dao"}, {FALSE}, BOOLEAN, {NoNumber, 1}, {0, 1},
            {FALSE}, {FALSE}, 1..MaxBatchSize)

\* live runs (single pass or --all, with or without --yes and --rename) over
\* a space with more items than the confirmation threshold, with the default
\* batch size
LargeConfigs ==
    Configs({"dao", "personal"}, {FALSE}, BOOLEAN, {NoNumber}, {NoNumber},
            BOOLEAN, BOOLEAN, {DEFAULT_BATCH_SIZE})

LargeSpace == [relations |-> RelationList(CONFIRM_THRESHOLD + 1), entities |-> <<>>]

\* live single-pass runs over a space that holds protected entities; the
\* personal script has the --include-accounts flag
ProtectedConfigs ==
    Configs({"dao", "personal"}, {FALSE}, {FALSE}, {NoNumber}, {NoNumber},
            {FALSE}, {FALSE}, 1..MaxBatchSize)
    \cup
    { [c EXCEPT !.INCLUDE_ACCOUNTS = TRUE] :
        c \in Configs({"personal"}, {FALSE}, {FALSE}, {NoNumber}, {NoNumber},
                      {FALSE}, {FALSE}, 1..MaxBatchSize) }

\* an Account entity, an entity named after a wallet address, and a plain one
ProtectedSpace ==
    [relations |-> <<>>,
     entities  |-> <<Single(AccountEntity(100)), Single(WalletEntity(101)),
                     Single(PlainEntity(102))>>]

\* a space whose account entities carry the Account type id in another
\* representation, and a plain entity
RepresentationSpaces ==
    { [relations |-> <<>>,
       entities  |-> <<Single(PlainEntity(101)),
                       \* an account entity whose type id is written as t
                       Single([id |-> 102, name |-> "named", typeIds |-> {t},
                               propertyIds |-> {"p1"}])>>] :
        t \in {ACCOUNT_TYPE_ID, DashedAccountTypeId, UpperAccountTypeId} }

\* a live --all run of the personal script that deletes the entities of one type
CapConfigs ==
    { [c EXCEPT !.TYPE_FILTER = WantedTypeId] :
        c \in Configs({"personal"}, {FALSE}, {TRUE}, {NoNumber}, {NoNumber},
                      {FALSE}, {FALSE}, {DEFAULT_BATCH_SIZE}) }

\* a space whose first CHUNK_LIMIT entities are of another type and whose
\* next entity is of the wanted type
CapSpace ==
    [relations |-> <<>>,
     entities  |-> <<Segment(PlainEntity(1001), CHUNK_LIMIT),
                     Single(TypedEntity(1001 + CHUNK_LIMIT))>>]

InitRuns(runs) ==
    /\ active = runs
    /\ run = [r \in Runs |-> IdleRun]
    /\ InitChain
    /\ InitPlanner

\* one run of either script
Init ==
    /\ \/ /\ cfg \in DryConfigs \cup LiveConfigs \cup LimitConfigs
          /\ space \in Spaces(MaxRel, MaxEnt)
       \/ /\ cfg \in LargeConfigs
          /\ space = LargeSpace
       \/ /\ cfg \in CapConfigs
          /\ space = CapSpace
       \/ /\ cfg \in ProtectedConfigs
          /\ space = ProtectedSpace
       \/ /\ cfg \in ProtectedConfigs
          /\ space \in RepresentationSpaces
    /\ InitRuns({1})

\* two operators run the dao script against the same space at the same time
InitTwoRuns ==
    /\ cfg \in Configs({"dao"}, {FALSE}, {FALSE}, {NoNumber}, {NoNumber},
                       {FALSE}, {FALSE}, 1..MaxBatchSize)
    /\ space \in Spaces(MaxRel, 0)
    /\ InitRuns({1, 2})

Set(r, rec) == run' = [run EXCEPT ![r] = rec]

Exit(rr, code) == [rr EXCEPT !.pc = "exit", !.exitCode = code]

\* return of runDeletionPass to main
Return(rr, res) == [rr EXCEPT !.pc = "afterPass", !.hasResult = TRUE, !.result = res]

StaticUnchanged == UNCHANGED <<cfg, active, votesNeeded, planIn, planOut, listing, mcp, uuid, chunking>>
NoFault == UNCHANGED faults
Fault == faults < MaxFaults /\ faults' = faults + 1
ChainUnchanged == UNCHANGED <<txs, proposals, space>>

\* ------------------------------------------------------------------------
\* main
\* ------------------------------------------------------------------------

\* the condition of the dry-run fast path (the personal script also tests
\* its two type filters)
DryRunFastPathCond ==
    /\ cfg.DRY_RUN /\ ~Truthy(cfg.LIMIT) /\ ~Truthy(cfg.TOTAL_LIMIT)
    /\ cfg.script = "personal" => (cfg.TYPE_FILTER = Null /\ cfg.EXCLUDE_TYPE_FILTER = Null)

\* main, dry-run fast path: getTotalCounts, print the summary, return
DryRunFastPath(r) ==
    /\ r \in active /\ run[r].pc = "main"
    /\ DryRunFastPathCond
    /\ Set(r, Exit([run[r] EXCEPT !.drySummary = getTotalCounts(space)], 0))
    /\ StaticUnchanged /\ NoFault /\ ChainUnchanged /\ UNCHANGED <<accountsMade, progressLog>>

\* main: wallet initialised, the run loop or the single pass is entered
StartPasses(r) ==
    /\ r \in active /\ run[r].pc = "main"
    /\ ~DryRunFastPathCond
    /\ Set(r, [run[r] EXCEPT !.pc = "pass"])
    /\ StaticUnchanged /\ NoFault /\ ChainUnchanged /\ UNCHANGED <<accountsMade, progressLog>>

\* ------------------------------------------------------------------------
\* runDeletionPass: enumeration and planning
\* ------------------------------------------------------------------------

\* the chunkLimit that main passes to runDeletionPass
PassChunkLimit == IF cfg.ALL THEN CHUNK_LIMIT ELSE cfg.TOTAL_LIMIT

\* call of runDeletionPass and its step 0, the before-counts
BeginPass(r) ==
    /\ r \in active /\ run[r].pc = "pass"
    /\ run[r].pass < MaxPasses
    /\ Set(r, [run[r] EXCEPT
                 !.pc = "queryEntities",
                 !.pass = @ + 1,
                 !.phase = "pass",
                 !.chunkLimit = PassChunkLimit,
                 !.skipConfirm = cfg.ALL,
                 !.countsBefore = getTotalCounts(space),
                 !.entities = <<>>, !.relations = <<>>, !.batches = <<>>,
                 !.totalOpsEstimate = 0, !.accountId = NoId, !.accountOps = <<>>,
                 !.i = 0, !.completedBatches = 0, !.failedBatches = 0,
                 !.proposalId = NoId, !.txHash = NoId,
                 !.executed = "unread", !.thresholdReached = "unread",
                 !.hasResult = FALSE, !.result = EmptyResult,
                 !.slept = <<>>, !.ok = "unasked"])
    /\ StaticUnchanged /\ NoFault /\ ChainUnchanged /\ UNCHANGED <<accountsMade, progressLog>>

EffectiveLimit(rr) == Coalesce(rr.chunkLimit, cfg.TOTAL_LIMIT)

\* entityLimit and relationLimit
PerTypeLimit(rr) == IF Truthy(EffectiveLimit(rr)) THEN EffectiveLimit(rr) ELSE cfg.LIMIT

\* the entity filters of the pass (the dao script has only the first one)
KeepEntity(e) ==
    /\ (cfg.script = "dao" \/ ~cfg.INCLUDE_ACCOUNTS) => NotProtected(e)
    /\ (cfg.script = "personal" /\ cfg.TYPE_FILTER # Null) => cfg.TYPE_FILTER \in e.typeIds
    /\ (cfg.script = "personal" /\ cfg.EXCLUDE_TYPE_FILTER # Null)
          => ~(cfg.EXCLUDE_TYPE_FILTER \in e.typeIds)

\* listAllEntities with the per-type limit, then the filters
EnumeratedEntities(sp, rr) ==
    SelectSeq(listAll(Entities(sp.entities), PerTypeLimit(rr)), KeepEntity)

\* step 1: listAllEntities and the filters
QueryEntities(r) ==
    /\ r \in active /\ run[r].pc = "queryEntities"
    /\ Set(r, [run[r] EXCEPT
                 !.pc = "queryRelations",
                 !.entities = EnumeratedEntities(space, run[r])])
    /\ StaticUnchanged /\ NoFault /\ ChainUnchanged /\ UNCHANGED <<accountsMade, progressLog>>

\* step 3: the deletions, the estimate and the batches
Planned(rr, relations, entities) ==
    [rr EXCEPT !.pc = "resolveAuthor",
               !.relations = relations, !.entities = entities,
               !.totalOpsEstimate = TotalOpsEstimate(relations, entities),
               !.batches = chunk(Deletions(relations, entities), cfg.BATCH_SIZE)]

\* step 2: listAllRelations, the trim to the total limit, and the early
\* returns (dry run, nothing to delete) or the confirmation prompt
QueryRelations(r) ==
    /\ r \in active /\ run[r].pc = "queryRelations"
    /\ LET rr        == run[r]
           listed    == listAll(space.relations, PerTypeLimit(rr))
           relations == TrimRelations(listed, rr.entities, EffectiveLimit(rr))
           entities  == TrimEntities(listed, rr.entities, EffectiveLimit(rr))
           totalOps  == Len(relations) + Len(entities)
           early     == [EmptyResult EXCEPT !.countsBefore = rr.countsBefore,
                                            !.countsAfter = rr.countsBefore]
           seen      == [rr EXCEPT !.relations = relations, !.entities = entities]
       IN  IF cfg.DRY_RUN
           THEN Set(r, Return([seen EXCEPT !.drySummary =
                                     [relations |-> Len(relations),
                                      entities |-> Len(entities)]],
                              [early EXCEPT !.aborted = TRUE]))
           ELSE IF totalOps = 0
           THEN Set(r, Return(seen, early))
           ELSE IF ~rr.skipConfirm /\ ~cfg.YES /\ totalOps > CONFIRM_THRESHOLD
           THEN Set(r, [seen EXCEPT !.pc = "confirm"])
           ELSE Set(r, Planned(rr, relations, entities))
    /\ StaticUnchanged /\ NoFault /\ ChainUnchanged /\ UNCHANGED <<accountsMade, progressLog>>

\* the operator's answer to the confirmation prompt
Confirm(r) ==
    /\ r \in active /\ run[r].pc = "confirm"
    /\ \E ok \in BOOLEAN :
         IF ok
         THEN Set(r, Planned([run[r] EXCEPT !.ok = "yes"],
                             run[r].relations, run[r].entities))
         ELSE Set(r, Return([run[r] EXCEPT !.ok = "no"], [EmptyResult EXCEPT
                                       !.aborted = TRUE,
                                       !.countsBefore = run[r].countsBefore,
                                       !.countsAfter = run[r].countsBefore]))
    /\ StaticUnchanged /\ NoFault /\ ChainUnchanged /\ UNCHANGED <<accountsMade, progressLog>>

\* step 4, before the loop: reuse an existing account entity or make one
\* (findExistingAccountId returns null when its query fails)
ResolveAuthor(r) ==
    /\ r \in active /\ run[r].pc \in {"resolveAuthor", "rename"}
    /\ \E queryOk \in BOOLEAN :
         LET existingAccountId == IF queryOk THEN findExistingAccountId(space) ELSE NoId
         IN  /\ IF queryOk THEN NoFault ELSE Fault
             /\ IF existingAccountId # NoId
                THEN /\ Set(r, [run[r] EXCEPT !.pc = "batch",
                                              !.accountId = existingAccountId,
                                              !.accountOps = <<>>, !.i = 0])
                     /\ UNCHANGED accountsMade
                ELSE /\ Set(r, [run[r] EXCEPT !.pc = "batch",
                                              !.accountId = AccountMakeId(accountsMade),
                                              !.accountOps = AccountMakeOps(accountsMade),
                                              !.i = 0])
                     /\ accountsMade' = accountsMade + 1
    /\ StaticUnchanged /\ ChainUnchanged /\ UNCHANGED progressLog

\* ------------------------------------------------------------------------
\* runDeletionPass: the batch loop (and the same steps of runRename)
\* ------------------------------------------------------------------------
Tx(r, kind, pid, ops, author) ==
    [by |-> r, kind |-> kind, pid |-> pid, ops |-> ops, author |-> author,
     status |-> "pending"]

\* Graph.updateEntity({ id: <space id>, name: RENAME_TO }).ops
RenameOps == <<[type |-> "renameSpace", id |-> NoId]>>

\* allOps with the account ops spliced into every batch
AuthorOpsInEveryBatch(rr) ==
    IF rr.phase = "rename"
    THEN rr.accountOps \o RenameOps
    ELSE rr.accountOps \o BatchOps(rr.batches[rr.i + 1])

\* allOps of the current batch, or of the rename edit
AllOps(rr) ==
    IF rr.phase = "rename"
    THEN rr.accountOps \o RenameOps
    ELSE IF rr.i = 0 /\ Len(rr.accountOps) > 0
         THEN rr.accountOps \o BatchOps(rr.batches[rr.i + 1])
         ELSE BatchOps(rr.batches[rr.i + 1])

\* completedBatches++ at the end of the try block; runRename just returns
CompleteBatch(rr) ==
    IF rr.phase = "rename"
    THEN Exit(rr, 0)
    ELSE [rr EXCEPT !.pc = "batchEnd", !.completedBatches = @ + 1]

\* a catch block that gives up the rest of the pass
FailBatchAbortsPass(rr) ==
    IF rr.phase = "rename"
    THEN Exit(rr, 1)
    ELSE [rr EXCEPT !.pc = "postVerify", !.failedBatches = @ + 1]

\* the catch block of the batch loop; an error in runRename reaches main().catch
FailBatch(rr) ==
    IF rr.phase = "rename"
    THEN Exit(rr, 1)
    ELSE [rr EXCEPT !.pc = "batchEnd", !.failedBatches = @ + 1]

\* a vote on the newest proposal of the space instead of the run's own
NewestProposalId(rr) == Len(proposals)

\* the proposal id passed to voteOnProposal and to executeProposal
VoteProposalId(rr) == rr.proposalId
ExecProposalId(rr) == rr.proposalId

\* a receipt wait that returns at once
ReceiptNotAwaited(h) == h = h

\* the receipt wait: returns once the transaction is no longer pending
ReceiptReady(h) == txs[h].status # "pending"

\* build the ops, daoSpace.proposeEdit (which returns a new proposal id),
\* and sendTransaction of the propose call
BuildAndPropose(r) ==
    /\ r \in active /\ run[r].pc = "batch" /\ cfg.script = "dao"
    /\ LET pid == Len(proposals) + 1
       IN  /\ proposals' = Append(proposals,
                  [by |-> r, ops |-> AllOps(run[r]), author |-> run[r].accountId,
                   created |-> FALSE, votes |-> {}, executed |-> FALSE])
           /\ txs' = Append(txs, Tx(r, "propose", pid, <<>>, run[r].accountId))
           /\ Set(r, [run[r] EXCEPT !.pc = "waitPropose", !.proposalId = pid,
                                    !.txHash = Len(txs) + 1])
    /\ StaticUnchanged /\ NoFault /\ UNCHANGED <<space, accountsMade, progressLog>>

\* waitForTransactionReceipt of the propose transaction
WaitProposeReceipt(r) ==
    /\ r \in active /\ run[r].pc = "waitPropose"
    /\ ReceiptReady(run[r].txHash)
    /\ Set(r, [run[r] EXCEPT !.pc = "vote"])
    /\ StaticUnchanged /\ NoFault /\ ChainUnchanged /\ UNCHANGED <<accountsMade, progressLog>>

\* voteOnProposal: sendTransaction of the YES vote
VoteSend(r) ==
    /\ r \in active /\ run[r].pc = "vote"
    /\ txs' = Append(txs, Tx(r, "vote", VoteProposalId(run[r]), <<>>, NoId))
    /\ Set(r, [run[r] EXCEPT !.pc = "waitVote", !.txHash = Len(txs) + 1])
    /\ StaticUnchanged /\ NoFault /\ UNCHANGED <<proposals, space, accountsMade, progressLog>>

\* voteOnProposal: waitForTransactionReceipt of the vote
WaitVoteReceipt(r) ==
    /\ r \in active /\ run[r].pc = "waitVote"
    /\ ReceiptReady(run[r].txHash)
    /\ Set(r, [run[r] EXCEPT !.pc = "readInfo"])
    /\ StaticUnchanged /\ NoFault /\ ChainUnchanged /\ UNCHANGED <<accountsMade, progressLog>>

\* getLatestProposalInformation: was the proposal executed with the vote?
ReadProposalInfo(r) ==
    /\ r \in active /\ run[r].pc = "readInfo"
    /\ LET executed == proposals[run[r].proposalId].executed
       IN  IF executed
           THEN Set(r, CompleteBatch([run[r] EXCEPT !.executed = "true"]))
           ELSE Set(r, [run[r] EXCEPT !.pc = "readThreshold", !.executed = "false"])
    /\ StaticUnchanged /\ NoFault /\ ChainUnchanged /\ UNCHANGED <<accountsMade, progressLog>>

\* isSupportThresholdReached
ReadThreshold(r) ==
    /\ r \in active /\ run[r].pc = "readThreshold"
    /\ LET p == proposals[run[r].proposalId]
           thresholdReached == p.created /\ ThresholdReached(p)
       IN  IF thresholdReached
           THEN Set(r, [run[r] EXCEPT !.pc = "exec", !.thresholdReached = "true"])
           ELSE Set(r, CompleteBatch([run[r] EXCEPT !.thresholdReached = "false"]))
    /\ StaticUnchanged /\ NoFault /\ ChainUnchanged /\ UNCHANGED <<accountsMade, progressLog>>

\* executeProposal: sendTransaction of the execute call
ExecSend(r) ==
    /\ r \in active /\ run[r].pc = "exec"
    /\ txs' = Append(txs, Tx(r, "execute", ExecProposalId(run[r]), <<>>, NoId))
    /\ Set(r, [run[r] EXCEPT !.pc = "waitExec", !.txHash = Len(txs) + 1])
    /\ StaticUnchanged /\ NoFault /\ UNCHANGED <<proposals, space, accountsMade, progressLog>>

\* executeProposal: waitForTransactionReceipt, then the end of the try block
WaitExecReceipt(r) ==
    /\ r \in active /\ run[r].pc = "waitExec"
    /\ ReceiptReady(run[r].txHash)
    /\ Set(r, CompleteBatch(run[r]))
    /\ StaticUnchanged /\ NoFault /\ ChainUnchanged /\ UNCHANGED <<accountsMade, progressLog>>

\* personal script: build the ops, personalSpace.publishEdit, sendTransaction,
\* then the end of the try block (no receipt wait)
BuildAndPublish(r) ==
    /\ r \in active /\ run[r].pc = "batch" /\ cfg.script = "personal"
    /\ txs' = Append(txs, Tx(r, "publish", NoId, AllOps(run[r]), run[r].accountId))
    /\ Set(r, CompleteBatch([run[r] EXCEPT !.txHash = Len(txs) + 1]))
    /\ StaticUnchanged /\ NoFault /\ UNCHANGED <<proposals, space, accountsMade, progressLog>>

InTry == {"batch", "waitPropose", "vote", "waitVote", "readInfo", "readThreshold",
          "exec", "waitExec"}

\* an awaited call inside the try block rejects (error or timeout)
BatchStepThrows(r) ==
    /\ r \in active /\ run[r].pc \in InTry
    /\ Set(r, FailBatch(run[r]))
    /\ Fault
    /\ StaticUnchanged /\ ChainUnchanged /\ UNCHANGED <<accountsMade, progressLog>>

\* a rejected query that ends the run with exit code 0
QueryThrowsExitsZero(r) ==
    /\ r \in active
    /\ run[r].pc \in {"main", "pass", "queryEntities", "queryRelations", "postVerify"}
    /\ run[r].pc = "pass" => run[r].pass < MaxPasses
    /\ Set(r, Exit(run[r], 0))
    /\ Fault
    /\ StaticUnchanged /\ ChainUnchanged /\ UNCHANGED <<accountsMade, progressLog>>

\* an awaited query outside the try block rejects: main().catch, exit code 1
QueryThrows(r) ==
    /\ r \in active
    /\ run[r].pc \in {"main", "pass", "queryEntities", "queryRelations", "postVerify"}
    /\ run[r].pc = "pass" => run[r].pass < MaxPasses
    /\ Set(r, Exit(run[r], 1))
    /\ Fault
    /\ StaticUnchanged /\ ChainUnchanged /\ UNCHANGED <<accountsMade, progressLog>>

\* SLEEP_BETWEEN_BATCHES_MS of the script that runs
SLEEP_BETWEEN_BATCHES_MS == IF cfg.script = "dao" THEN DaoSleepMs ELSE PersonalSleepMs

\* a batch loop that never sleeps
NoSleepAfterBatch(rr) == <<>>

\* if (i < batches.length - 1) await sleep(SLEEP_BETWEEN_BATCHES_MS): the
\* delays waited at the end of iteration rr.i
SleepAfterBatch(rr) ==
    IF rr.i < Len(rr.batches) - 1 THEN <<SLEEP_BETWEEN_BATCHES_MS>> ELSE <<>>

\* timing statistics, the sleep between batches, and the loop increment
NextBatch(r) ==
    /\ r \in active /\ run[r].pc = "batchEnd"
    /\ IF run[r].i + 1 < Len(run[r].batches)
       THEN Set(r, [run[r] EXCEPT !.pc = "batch", !.i = @ + 1,
                                  !.slept = @ \o SleepAfterBatch(run[r]),
                                  !.proposalId = NoId, !.txHash = NoId,
                                  !.executed = "unread", !.thresholdReached = "unread"])
       ELSE Set(r, [run[r] EXCEPT !.pc = "postVerify",
                                  !.slept = @ \o SleepAfterBatch(run[r])])
    /\ StaticUnchanged /\ NoFault /\ ChainUnchanged /\ UNCHANGED <<accountsMade, progressLog>>

\* step 5: post-verification counts, the progress log record, the return
PostVerify(r) ==
    /\ r \in active /\ run[r].pc = "postVerify"
    /\ LET rr == run[r]
           countsAfter == getTotalCounts(space)
           opsAttempted == Len(rr.relations) + Len(rr.entities)
           res == [aborted |-> FALSE, opsAttempted |-> opsAttempted,
                   batchesCompleted |-> rr.completedBatches,
                   batchesFailed |-> rr.failedBatches,
                   countsBefore |-> rr.countsBefore, countsAfter |-> countsAfter]
       IN  /\ progressLog' = Append(progressLog, [res EXCEPT !.aborted = FALSE])
           /\ Set(r, Return(rr, res))
    /\ StaticUnchanged /\ NoFault /\ ChainUnchanged /\ UNCHANGED accountsMade

\* an --all loop that stops only when the space is clean
BreaksOnlyWhenClean(result) ==
    result.countsAfter.entities = 0 /\ result.countsAfter.relations = 0

\* the break conditions of the --all loop
AllLoopBreaks(result) ==
    \/ (result.countsAfter.entities = 0 /\ result.countsAfter.relations = 0)
    \/ result.opsAttempted = 0

\* main after runDeletionPass returned: the --all loop, or the single pass
AfterPass(r) ==
    /\ r \in active /\ run[r].pc = "afterPass"
    /\ LET rr == run[r]
           finish == IF cfg.RENAME_TO
                     THEN [rr EXCEPT !.pc = "rename", !.phase = "rename",
                                     !.proposalId = NoId, !.txHash = NoId,
                                     !.executed = "unread",
                                     !.thresholdReached = "unread"]
                     ELSE Exit(rr, 0)
       IN  IF cfg.ALL
           THEN IF AllLoopBreaks(rr.result)
                THEN Set(r, finish)
                ELSE Set(r, [rr EXCEPT !.pc = "pass"])
           ELSE IF rr.result.aborted
                THEN Set(r, Exit(rr, 0))
                ELSE Set(r, finish)
    /\ StaticUnchanged /\ NoFault /\ ChainUnchanged /\ UNCHANGED <<accountsMade, progressLog>>

\* ------------------------------------------------------------------------
\* The chain: a pending transaction is included in a block
\* ------------------------------------------------------------------------
Mine(h) ==
    /\ h \in 1..Len(txs) /\ txs[h].status = "pending"
    /\ LET t == txs[h]
           p == proposals[t.pid]
       IN  \/ /\ txs' = [txs EXCEPT ![h].status = "reverted"]
              /\ Fault
              /\ UNCHANGED <<proposals, space>>
           \/ /\ t.kind = "propose"
              /\ NoFault
              /\ txs' = [txs EXCEPT ![h].status = "success"]
              /\ proposals' = [proposals EXCEPT ![t.pid].created = TRUE]
              /\ UNCHANGED space
           \/ /\ t.kind = "vote"
              /\ NoFault
              /\ p.created /\ ~p.executed /\ t.by \notin p.votes
              /\ txs' = [txs EXCEPT ![h].status = "success"]
              /\ \E autoExecute \in BOOLEAN :
                   IF autoExecute /\ Cardinality(p.votes \cup {t.by}) >= votesNeeded
                   THEN /\ proposals' = [proposals EXCEPT ![t.pid].votes = @ \cup {t.by},
                                                          ![t.pid].executed = TRUE]
                        /\ space' = ApplyOps(space, p.ops)
                   ELSE /\ ~autoExecute
                        /\ proposals' = [proposals EXCEPT ![t.pid].votes = @ \cup {t.by}]
                        /\ UNCHANGED space
           \/ /\ t.kind = "execute"
              /\ NoFault
              /\ p.created /\ ~p.executed /\ ThresholdReached(p)
              /\ txs' = [txs EXCEPT ![h].status = "success"]
              /\ proposals' = [proposals EXCEPT ![t.pid].executed = TRUE]
              /\ space' = ApplyOps(space, p.ops)
           \/ /\ t.kind = "publish"
              /\ NoFault
              /\ txs' = [txs EXCEPT ![h].status = "success"]
              /\ space' = ApplyOps(space, t.ops)
              /\ UNCHANGED proposals
    /\ StaticUnchanged /\ UNCHANGED <<run, accountsMade, progressLog>>

Step(r) ==
    \/ DryRunFastPath(r)
    \/ StartPasses(r)
    \/ BeginPass(r)
    \/ QueryEntities(r)
    \/ QueryRelations(r)
    \/ Confirm(r)
    \/ ResolveAuthor(r)
    \/ BuildAndPropose(r)
    \/ WaitProposeReceipt(r)
    \/ VoteSend(r)
    \/ WaitVoteReceipt(r)
    \/ ReadProposalInfo(r)
    \/ ReadThreshold(r)
    \/ ExecSend(r)
    \/ WaitExecReceipt(r)
    \/ BuildAndPublish(r)
    \/ BatchStepThrows(r)
    \/ QueryThrows(r)
    \/ NextBatch(r)
    \/ PostVerify(r)
    \/ AfterPass(r)

Next == (\E r \in Runs : Step(r)) \/ (\E h \in 1..Len(txs) : Mine(h))

Spec == Init /\ [][Next]_vars

\* the steps of a live single-pass run of the dao script
DaoStep(r) ==
    \/ StartPasses(r)
    \/ BeginPass(r)
    \/ QueryEntities(r)
    \/ QueryRelations(r)
    \/ ResolveAuthor(r)
    \/ BuildAndPropose(r)
    \/ WaitProposeReceipt(r)
    \/ VoteSend(r)
    \/ WaitVoteReceipt(r)
    \/ ReadProposalInfo(r)
    \/ ReadThreshold(r)
    \/ ExecSend(r)
    \/ WaitExecReceipt(r)
    \/ BatchStepThrows(r)
    \/ QueryThrows(r)
    \/ NextBatch(r)
    \/ PostVerify(r)
    \/ AfterPass(r)

NextTwoRuns == (\E r \in Runs : DaoStep(r)) \/ (\E h \in 1..Len(txs) : Mine(h))

SpecTwoRuns == InitTwoRuns /\ [][NextTwoRuns]_vars

\* ------------------------------------------------------------------------
\* The batch planner on its own
\* ------------------------------------------------------------------------
PlanInputs ==
    [relations : {RelationList(n) : n \in 0..MaxPlanRel},
     entities : UNION { EntityLists(n, {"plain", "props"}) : n \in 0..MaxPlanEnt },
     size : 1..MaxPlanBatchSize]

InitPlan ==
    /\ cfg \in Configs({"dao"}, {FALSE}, {FALSE}, {NoNumber}, {NoNumber},
                       {FALSE}, {FALSE}, {1})
    /\ space = [relations |-> <<>>, entities |-> <<>>]
    /\ active = {}
    /\ run = [r \in Runs |-> IdleRun]
    /\ InitChain
    /\ votesNeeded = 1
    /\ planIn \in PlanInputs
    /\ listing = IdleListing
    /\ mcp = IdleMcp
    /\ uuid = IdleUuid
    /\ chunking = IdleChunking
    /\ planOut = [planned |-> FALSE, deletions |-> <<>>, batches |-> <<>>,
                  totalOpsEstimate |-> 0, ops |-> <<>>]

\* steps 3 and 4 of runDeletionPass for the enumerated lists of planIn: the
\* deletions, the estimate, the batches, and the ops built for each batch
PlanPass ==
    /\ ~planOut.planned
    /\ LET deletions == Deletions(planIn.relations, planIn.entities)
           batches   == chunk(deletions, planIn.size)
       IN  planOut' = [planned |-> TRUE, deletions |-> deletions, batches |-> batches,
                       totalOpsEstimate |->
                           TotalOpsEstimate(planIn.relations, planIn.entities),
                       ops |-> [k \in 1..Len(batches) |-> BatchOps(batches[k])]]
    /\ UNCHANGED <<cfg, active, space, txs, proposals, votesNeeded, accountsMade,
                   progressLog, run, faults, planIn, listing, mcp, uuid, chunking>>

NextPlan == PlanPass

SpecPlan == InitPlan /\ [][NextPlan]_vars

\* ------------------------------------------------------------------------
\* listAllEntities / listAllRelations on their own
\* ------------------------------------------------------------------------

\* lengths around the page boundaries of up to MaxPages pages
BoundaryLengths ==
    {n \in 0..(MaxPages * PageSize + 1) :
        \E k \in 0..MaxPages : n \in {k * PageSize - 1, k * PageSize, k * PageSize + 1}}

InitList ==
    /\ cfg \in Configs({"dao"}, {FALSE}, {FALSE}, {NoNumber}, {NoNumber},
                       {FALSE}, {FALSE}, {1})
    /\ space = [relations |-> <<>>, entities |-> <<>>]
    /\ active = {}
    /\ run = [r \in Runs |-> IdleRun]
    /\ InitChain
    /\ votesNeeded = 1
    /\ planIn = [relations |-> <<>>, entities |-> <<>>, size |-> 1]
    /\ planOut = [planned |-> FALSE, deletions |-> <<>>, batches |-> <<>>,
                  totalOpsEstimate |-> 0, ops |-> <<>>]
    /\ mcp = IdleMcp
    /\ uuid = IdleUuid
    /\ chunking = IdleChunking
    /\ \E n \in BoundaryLengths, limit \in {NoNumber} \cup BoundaryLengths :
         listing = [upstream |-> RelationList(n), limit |-> limit,
                    st |-> [out |-> <<>>, after |-> 0, done |-> FALSE],
                    requests |-> <<>>, returned |-> FALSE, result |-> <<>>]

ListUnchanged ==
    UNCHANGED <<cfg, active, space, txs, proposals, votesNeeded, accountsMade,
                progressLog, run, faults, planIn, planOut, mcp, uuid, chunking>>

\* one iteration of the while loop: the break on first <= 0, or a page
\* request with its answer
FetchPage ==
    /\ ~listing.st.done
    /\ LET first == PageFirst(listing.limit, listing.st)
       IN  listing' = [listing EXCEPT
               !.st = PageStep(listing.upstream, listing.limit, listing.st),
               !.requests = IF first <= 0 THEN @
                            ELSE Append(@, [first |-> first,
                                            soFar |-> Len(listing.st.out)])]
    /\ ListUnchanged

\* return limit ? out.slice(0, limit) : out
ReturnList ==
    /\ listing.st.done /\ ~listing.returned
    /\ listing' = [listing EXCEPT
           !.returned = TRUE,
           !.result = IF Truthy(listing.limit)
                      THEN JsSlice(listing.st.out, 0, listing.limit)
                      ELSE listing.st.out]
    /\ ListUnchanged

NextList == FetchPage \/ ReturnList

SpecList == InitList /\ [][NextList]_vars

\* ------------------------------------------------------------------------
\* The MCP tools publish_edit, propose_dao_edit and clear_session over the
\* EditSession singleton (tools/spaces.ts, state/session.ts)
\* ------------------------------------------------------------------------
\* Account.make(walletAddress).ops
AccountOps == <<"createAccount">>

InitTools ==
    /\ cfg \in Configs({"dao"}, {FALSE}, {FALSE}, {NoNumber}, {NoNumber},
                       {FALSE}, {FALSE}, {1})
    /\ space = [relations |-> <<>>, entities |-> <<>>]
    /\ active = {}
    /\ run = [r \in Runs |-> IdleRun]
    /\ InitChain
    /\ votesNeeded = 1
    /\ planIn = [relations |-> <<>>, entities |-> <<>>, size |-> 1]
    /\ planOut = [planned |-> FALSE, deletions |-> <<>>, batches |-> <<>>,
                  totalOpsEstimate |-> 0, ops |-> <<>>]
    /\ listing = IdleListing
    /\ uuid = IdleUuid
    /\ chunking = IdleChunking
    /\ \E w \in BOOLEAN, sp \in BOOLEAN :
         mcp = [IdleMcp EXCEPT !.walletOk = w, !.spaceId = sp]

ToolsUnchanged ==
    UNCHANGED <<cfg, active, space, txs, proposals, votesNeeded, accountsMade,
                progressLog, run, faults, planIn, planOut, listing, uuid, chunking>>

\* EditSession.clear that leaves lastPublishedOps alone
SessionClearOpsOnly(m, includeLastPublished) == [m EXCEPT !.ops = <<>>]

\* EditSession.clear(options)
SessionClear(m, includeLastPublished) ==
    [m EXCEPT !.ops = <<>>,
              !.lastPublishedOps = IF includeLastPublished THEN <<>> ELSE @]

\* EditSession.setLastPublishedOps(ops)
SetLastPublishedOps(m, ops) == [m EXCEPT !.lastPublishedOps = ops]

\* the result that a tool handler returns
ToolResult(tool, isError, error, ops) ==
    [tool |-> tool, isError |-> isError, error |-> error, ops |-> ops]

Returns(m, res) == [m EXCEPT !.call = NoCall, !.results = Append(@, res)]

\* a graph tool (create_entity, ...) adds an op: EditSession.addOps
AddOps ==
    /\ Len(mcp.ops) < MaxSessionOps
    /\ \E op \in {"opA", "opB"} : mcp' = [mcp EXCEPT !.ops = Append(@, op)]
    /\ ToolsUnchanged

\* clear_session
ClearSession ==
    /\ mcp.call.tool = "none" /\ Len(mcp.results) < MaxCalls
    /\ mcp' = Returns(SessionClear(mcp, TRUE),
                      ToolResult("clear_session", FALSE, "", <<>>))
    /\ ToolsUnchanged

\* the checks that publish_edit and propose_dao_edit make before their try
\* block; opsToUse is what the handler goes on with
StartTool(tool, opsToUse) ==
    IF ~mcp.walletOk
    THEN Returns(mcp, ToolResult(tool, TRUE, "Wallet not configured.", <<>>))
    ELSE IF ~mcp.spaceId
    THEN Returns(mcp, ToolResult(tool, TRUE, "Space not set up.", <<>>))
    ELSE IF Len(opsToUse) = 0
    THEN Returns(mcp, ToolResult(tool, TRUE, "No ops accumulated.", <<>>))
    ELSE [mcp EXCEPT !.call = [tool |-> tool, pc |-> "build", ops |-> opsToUse]]

\* publish_edit up to its first await inside the try block
PublishStart ==
    /\ mcp.call.tool = "none" /\ Len(mcp.results) < MaxCalls
    /\ mcp' = StartTool("publish_edit", mcp.ops)
    /\ ToolsUnchanged

\* opsToPropose: the pending ops, or else the last published ops
OpsToPropose(m) == IF Len(m.ops) > 0 THEN m.ops ELSE m.lastPublishedOps

\* propose_dao_edit up to its first await inside the try block
ProposeStart ==
    /\ mcp.call.tool = "none" /\ Len(mcp.results) < MaxCalls
    /\ mcp' = StartTool("propose_dao_edit", OpsToPropose(mcp))
    /\ ToolsUnchanged

\* publishEdit / proposeEdit resolved; sendTransaction of allOps
SendEdit ==
    /\ mcp.call.pc = "build"
    /\ mcp' = [mcp EXCEPT !.call.pc = "receipt",
                          !.sent = Append(@, [tool |-> mcp.call.tool,
                                              ops |-> AccountOps \o mcp.call.ops])]
    /\ ToolsUnchanged

\* waitForTransactionReceipt resolved: the session is updated, the handler returns
ReceiptArrives ==
    /\ mcp.call.pc = "receipt"
    /\ mcp' = IF mcp.call.tool = "publish_edit"
              THEN Returns(SessionClear(SetLastPublishedOps(mcp, mcp.call.ops), FALSE),
                           ToolResult("publish_edit", FALSE, "", mcp.call.ops))
              ELSE Returns(SessionClear(mcp, TRUE),
                           ToolResult("propose_dao_edit", FALSE, "", mcp.call.ops))
    /\ ToolsUnchanged

\* an awaited call inside the try block rejects: the catch block returns the error
ToolThrows ==
    /\ mcp.call.pc \in {"build", "receipt"}
    /\ mcp' = Returns(mcp, ToolResult(mcp.call.tool, TRUE, "Failed", <<>>))
    /\ ToolsUnchanged

NextTools ==
    \/ AddOps
    \/ ClearSession
    \/ PublishStart
    \/ ProposeStart
    \/ SendEdit
    \/ ReceiptArrives
    \/ ToolThrows

SpecTools == InitTools /\ [][NextTools]_vars

\* ------------------------------------------------------------------------
\* The UUID helpers of api/client.ts; a string is a sequence of characters
\* ------------------------------------------------------------------------

\* String.prototype.toLowerCase on the characters of the model
LowerChar(c) ==
    CASE c = "A" -> "a" [] c = "B" -> "b" [] c = "C" -> "c"
      [] c = "D" -> "d" [] c = "E" -> "e" [] c = "F" -> "f"
      [] OTHER -> c

UpperChar(c) ==
    CASE c = "a" -> "A" [] c = "b" -> "B" [] c = "c" -> "C"
      [] c = "d" -> "D" [] c = "e" -> "E" [] c = "f" -> "F"
      [] OTHER -> c

toLowerCase(str) == [k \in 1..Len(str) |-> LowerChar(str[k])]

\* str.replace(/-/g, '')
RemoveDashes(str) == SelectSeq(str, LAMBDA c : c # "-")

Thrown == [ok |-> FALSE, value |-> <<>>]
Returned(str) == [ok |-> TRUE, value |-> str]

toDashlessUUID(dashed) == Returned(toLowerCase(RemoveDashes(dashed)))

\* toDashedUUID without the length check
toDashedUUIDUnchecked(dashless) ==
    LET hex == toLowerCase(RemoveDashes(dashless))
    IN  Returned(JsSlice(hex, 0, 8) \o <<"-">> \o JsSlice(hex, 8, 12) \o <<"-">>
                 \o JsSlice(hex, 12, 16) \o <<"-">> \o JsSlice(hex, 16, 20)
                 \o <<"-">> \o JsSlice(hex, 20, Len(hex)))

toDashedUUID(dashless) ==
    LET hex == toLowerCase(RemoveDashes(dashless))
    IN  IF Len(hex) # 32 THEN Thrown
        ELSE Returned(JsSlice(hex, 0, 8) \o <<"-">> \o JsSlice(hex, 8, 12) \o <<"-">>
                      \o JsSlice(hex, 12, 16) \o <<"-">> \o JsSlice(hex, 16, 20)
                      \o <<"-">> \o JsSlice(hex, 20, Len(hex)))

normalizeToUUID(input) ==
    LET cleaned == toLowerCase(RemoveDashes(input))
    IN  IF Len(cleaned) # 32 THEN Thrown ELSE toDashedUUID(cleaned)

\* the id of the unit tests, 96f859efa1ca4b229372c86ad58b694b
TestId ==
    <<"9", "6", "f", "8", "5", "9", "e", "f", "a", "1", "c", "a", "4", "b", "2", "2",
      "9", "3", "7", "2", "c", "8", "6", "a", "d", "5", "8", "b", "6", "9", "4", "b">>

\* the id with the letters at the positions of `mask` in upper case
WithCase(id, mask) == [k \in 1..Len(id) |-> IF k \in mask THEN UpperChar(id[k]) ELSE id[k]]

\* ways of writing an id: without dashes, as a dashed UUID, with a dash
\* before every character
Written(id, form) ==
    IF form = "dashless" THEN id
    ELSE IF form = "dashed"
    THEN [k \in 1..(Len(id) + 4) |->
             IF k \in {9, 14, 19, 24} THEN "-"
             ELSE id[k - Cardinality({d \in {9, 14, 19, 24} : d < k})]]
    ELSE [k \in 1..(2 * Len(id)) |-> IF k % 2 = 1 THEN "-" ELSE id[k \div 2]]

\* the id cut by some characters or extended by some characters
Resized(id, delta) ==
    IF delta <= 0 THEN SubSeq(id, 1, Len(id) + delta)
    ELSE id \o [k \in 1..delta |-> "0"]

InitUuid ==
    /\ cfg \in Configs({"dao"}, {FALSE}, {FALSE}, {NoNumber}, {NoNumber},
                       {FALSE}, {FALSE}, {1})
    /\ space = [relations |-> <<>>, entities |-> <<>>]
    /\ active = {}
    /\ run = [r \in Runs |-> IdleRun]
    /\ InitChain
    /\ votesNeeded = 1
    /\ planIn = [relations |-> <<>>, entities |-> <<>>, size |-> 1]
    /\ planOut = [planned |-> FALSE, deletions |-> <<>>, batches |-> <<>>,
                  totalOpsEstimate |-> 0, ops |-> <<>>]
    /\ listing = IdleListing
    /\ mcp = IdleMcp
    /\ chunking = IdleChunking
    /\ \E mask \in {{}, 1..32} \cup {{k} : k \in 1..32},
          delta \in (0 - MaxResize)..MaxResize,
          form \in {"dashless", "dashed", "scattered"} :
         uuid = [IdleUuid EXCEPT
                    !.input = Written(Resized(WithCase(TestId, mask), delta), form)]

UuidUnchanged ==
    UNCHANGED <<cfg, active, space, txs, proposals, votesNeeded, accountsMade,
                progressLog, run, faults, planIn, planOut, listing, mcp, chunking>>

\* toDashedUUID(input)
ApplyToDashed ==
    /\ uuid.dashed = Unapplied
    /\ uuid' = [uuid EXCEPT !.dashed = toDashedUUID(uuid.input)]
    /\ UuidUnchanged

\* toDashlessUUID(toDashedUUID(input))
ApplyToDashless ==
    /\ uuid.dashed.ok /\ uuid.roundTrip = Unapplied
    /\ uuid' = [uuid EXCEPT !.roundTrip = toDashlessUUID(uuid.dashed.value)]
    /\ UuidUnchanged

\* normalizeToUUID(input)
ApplyNormalize ==
    /\ uuid.normalized = Unapplied
    /\ uuid' = [uuid EXCEPT !.normalized = normalizeToUUID(uuid.input)]
    /\ UuidUnchanged

\* normalizeToUUID(normalizeToUUID(input))
ApplyNormalizeAgain ==
    /\ uuid.normalized.ok /\ uuid.normalizedTwice = Unapplied
    /\ uuid' = [uuid EXCEPT !.normalizedTwice = normalizeToUUID(uuid.normalized.value)]
    /\ UuidUnchanged

NextUuid == ApplyToDashed \/ ApplyToDashless \/ ApplyNormalize \/ ApplyNormalizeAgain

SpecUuid == InitUuid /\ [][NextUuid]_vars

\* ------------------------------------------------------------------------
\* chunk(arr, size) step by step, for every batch size that parseIntArg accepts
\* ------------------------------------------------------------------------

InitChunk ==
    /\ cfg \in Configs({"dao"}, {FALSE}, {FALSE}, {NoNumber}, {NoNumber},
                       {FALSE}, {FALSE}, {1})
    /\ space = [relations |-> <<>>, entities |-> <<>>]
    /\ active = {}
    /\ run = [r \in Runs |-> IdleRun]
    /\ InitChain
    /\ votesNeeded = 1
    /\ planIn = [relations |-> <<>>, entities |-> <<>>, size |-> 1]
    /\ planOut = [planned |-> FALSE, deletions |-> <<>>, batches |-> <<>>,
                  totalOpsEstimate |-> 0, ops |-> <<>>]
    /\ listing = IdleListing
    /\ mcp = IdleMcp
    /\ uuid = IdleUuid
    \* --batch-size values: parseInt accepts zero and negative integers
    /\ \E n \in 0..MaxChunkLen, size \in (0 - MaxChunkSize)..MaxChunkSize :
         chunking = [arr |-> Deletions(RelationList(n), <<>>), size |-> size,
                     i |-> 0, out |-> <<>>, returned |-> FALSE, aborted |-> FALSE]

ChunkUnchanged ==
    UNCHANGED <<cfg, active, space, txs, proposals, votesNeeded, accountsMade,
                progressLog, run, faults, planIn, planOut, listing, mcp, uuid>>

\* one iteration of the for loop: out.push(arr.slice(i, i + size)); i += size
ChunkIterate ==
    /\ ~chunking.returned /\ ~chunking.aborted
    /\ chunking.i < Len(chunking.arr)
    /\ chunking' =
         \* out holds at most MaxChunkLen + MaxExtraIterations chunks: a push
         \* beyond what the engine can hold ends the call without a return
         IF Len(chunking.out) < MaxChunkLen + MaxExtraIterations
         THEN [chunking EXCEPT
                  !.out = Append(@, JsSlice(chunking.arr, chunking.i,
                                            chunking.i + chunking.size)),
                  !.i = @ + chunking.size]
         ELSE [chunking EXCEPT !.aborted = TRUE]
    /\ ChunkUnchanged

\* the loop condition is false: return out
ChunkReturn ==
    /\ ~chunking.returned /\ ~chunking.aborted
    /\ ~(chunking.i < Len(chunking.arr))
    /\ chunking' = [chunking EXCEPT !.returned = TRUE]
    /\ ChunkUnchanged

NextChunk == ChunkIterate \/ ChunkReturn

\* the loop keeps running: every enabled step of it is eventually taken
SpecChunkFair == InitChunk /\ [][NextChunk]_vars /\ WF_vars(NextChunk)

\* ------------------------------------------------------------------------
\* Properties
\* ------------------------------------------------------------------------
TxIds == 1..Len(txs)

SetMax(S) == CHOOSE x \in S : \A y \in S : y <= x

\* transaction g was submitted before h by the same run for the same proposal
\* and its receipt has arrived
ConfirmedBefore(h, kind) ==
    \E g \in 1..(h - 1) :
        /\ txs[g].kind = kind /\ txs[g].by = txs[h].by /\ txs[g].pid = txs[h].pid
        /\ txs[g].status # "pending"

\* the step submits a transaction of this kind by run r
Submits(r, kind) ==
    /\ Len(txs') = Len(txs) + 1
    /\ txs'[Len(txs')].by = r /\ txs'[Len(txs')].kind = kind

GovernedOrderState ==
    /\ \A h \in TxIds : txs[h].kind = "vote" => ConfirmedBefore(h, "propose")
    /\ \A h \in TxIds : txs[h].kind = "execute" => ConfirmedBefore(h, "vote")
    /\ \A r \in Runs : run[r].thresholdReached # "unread" => run[r].executed = "false"

GovernedOrderStep ==
    \A r \in Runs :
        /\ (run[r].executed = "unread" /\ run'[r].executed # "unread") =>
              \E g \in TxIds : /\ txs[g].kind = "vote" /\ txs[g].by = r
                               /\ txs[g].pid = run[r].proposalId
                               /\ txs[g].status # "pending"
        /\ Submits(r, "execute") =>
              /\ run[r].executed = "false" /\ run[r].thresholdReached = "true"
              /\ txs'[Len(txs')].pid = run[r].proposalId

\* C1: in the governed path a vote is submitted only after the propose
\* transaction of the same proposal was submitted and its receipt arrived,
\* the proposal status is read only after the receipt of the vote arrived,
\* and an execute transaction is submitted only after the status read
\* reported "not executed" and the threshold read reported "reached".
GovernedOrder == []GovernedOrderState /\ [][GovernedOrderStep]_vars

\* an execute transaction was submitted by the batch loop of the dao script
GovernedOrderWitness ==
    \E h \in TxIds : /\ txs[h].kind = "execute"
                     /\ run[txs[h].by].phase = "pass"
                     /\ run[txs[h].by].pc = "waitExec"

BatchAccountingState ==
    \A r \in Runs :
        LET counted == run[r].completedBatches + run[r].failedBatches
        IN  /\ (run[r].phase = "pass" /\ run[r].pc \in InTry) => counted = run[r].i
            /\ run[r].pc = "batchEnd" => counted = run[r].i + 1
            /\ run[r].pc = "postVerify" => counted = Len(run[r].batches)
            /\ run[r].pc = "afterPass" =>
                  run[r].result.batchesCompleted + run[r].result.batchesFailed
                      = Len(run[r].batches)

BatchAccountingStep ==
    \A r \in Runs :
        /\ (run[r].phase = "pass" /\ run[r].pc \in InTry
              /\ faults' > faults /\ run'[r] # run[r]) =>
              /\ run'[r].failedBatches = run[r].failedBatches + 1
              /\ run'[r].completedBatches = run[r].completedBatches
              /\ run'[r].pc = "batchEnd"
              /\ txs' = txs
        /\ (run[r].pc = "batchEnd" /\ run'[r] # run[r]) =>
              IF run[r].i + 1 < Len(run[r].batches)
              THEN run'[r].pc = "batch" /\ run'[r].i = run[r].i + 1
              ELSE run'[r].pc = "postVerify"

\* C3: an error or timeout in a step of batch i counts batch i as failed,
\* submits nothing more for it, and the pass goes on to batch i+1; when a
\* pass ends batchesCompleted + batchesFailed is the number of planned batches.
BatchAccounting == []BatchAccountingState /\ [][BatchAccountingStep]_vars

\* the first batch of a pass failed and the second batch has been started
BatchAccountingWitness ==
    \E r \in Runs : /\ run[r].pc = "batch" /\ run[r].phase = "pass"
                    /\ run[r].i = 1 /\ run[r].failedBatches = 1

\* the transactions of the batch that run r is working on
BatchTxs(r) ==
    IF cfg.script = "dao"
    THEN {h \in 1..Len(txs') : txs'[h].by = r /\ txs'[h].pid = run[r].proposalId}
    ELSE {run'[r].txHash}

\* C4: a batch is counted as completed only if every write transaction it
\* submitted has been confirmed with a success status.
CompletedOnlyIfConfirmed ==
    [][\A r \in Runs :
          run'[r].completedBatches > run[r].completedBatches =>
              \A h \in BatchTxs(r) : txs'[h].status = "success"]_vars

\* C5: a run never has more than one submitted transaction whose
\* confirmation it has not received.
OneUnconfirmedTx ==
    \A r \in Runs :
        Cardinality({h \in TxIds : txs[h].by = r /\ txs[h].status = "pending"}) <= 1

\* C6: a run with --dry-run submits no transaction.
DryRunSubmitsNothing == cfg.DRY_RUN => txs = <<>>

\* C7: the space never holds more than one author (account) object.
AtMostOneAuthor ==
    Cardinality({e \in Range(Entities(space.entities)) :
                    ACCOUNT_TYPE_ID \in e.typeIds}) <= 1

\* a batch of 12,000 items planned with batch size 5,000
ScenarioB ==
    LET batches == chunk([k \in 1..12000 |-> k], 5000)
    IN  [k \in 1..Len(batches) |-> Len(batches[k])] = <<5000, 5000, 2000>>

\* C8: the planned batches concatenated are the relation deletions followed
\* by the entity deletions, every item once and in order; every batch but the
\* last has exactly B items and the last has between 1 and B items.
PartitionCorrect ==
    planOut.planned =>
        LET batches == planOut.batches
            items   == Flatten(batches)
            nRel    == Len(planIn.relations)
            nEnt    == Len(planIn.entities)
        IN  /\ Len(items) = nRel + nEnt
            /\ \A k \in 1..nRel :
                  items[k].kind = "relation" /\ items[k].id = planIn.relations[k].id
            /\ \A k \in 1..nEnt :
                  /\ items[nRel + k].kind = "entity"
                  /\ items[nRel + k].id = planIn.entities[k].id
            /\ \A k \in 1..(Len(batches) - 1) : Len(batches[k]) = planIn.size
            /\ Len(batches) > 0 => Len(batches[Len(batches)]) \in 1..planIn.size
            /\ ScenarioB

\* relations and entities were planned into several batches, the last one short
PartitionCorrectWitness ==
    /\ planOut.planned
    /\ planIn.relations # <<>> /\ planIn.entities # <<>>
    /\ Len(planOut.batches) >= 2
    /\ Len(planOut.batches[Len(planOut.batches)]) < planIn.size

\* C9: the estimate is relations + entities + entities with property values.
EstimateMatchesOps ==
    planOut.planned =>
        planOut.totalOpsEstimate =
            Len(planIn.relations) + Len(planIn.entities)
            + Cardinality({k \in 1..Len(planIn.entities) :
                              planIn.entities[k].propertyIds # {}})

CountsZero(counts) == counts.entities = 0 /\ counts.relations = 0

PlannedItems(rr) == Len(rr.relations) + Len(rr.entities)

\* run r leaves the loop check of the --all loop in this step
LoopDecision(r) == cfg.ALL /\ run[r].pc = "afterPass" /\ run'[r].pc # "afterPass"

\* C10 as stated: after a pass the --all loop stops if and only if the
\* counts after the pass are both zero or the pass planned zero items.
DrainStopsIffCleanOrEmpty ==
    [][\A r \in Runs :
          LoopDecision(r) =>
              (run'[r].pc # "pass" <=>
                  (CountsZero(run[r].result.countsAfter) \/ PlannedItems(run[r]) = 0))]_vars

\* C10 amended: after a pass that returns, the --all loop stops if and only
\* if the counts the pass returns are both zero, or the pass planned zero
\* items, or the run is a dry run; otherwise another pass is started.
DrainStopsIffCleanEmptyOrDry ==
    [][\A r \in Runs :
          LoopDecision(r) =>
              (run'[r].pc # "pass" <=>
                  (CountsZero(run[r].result.countsAfter) \/ PlannedItems(run[r]) = 0
                   \/ cfg.DRY_RUN))]_vars

\* a live --all run has started a second pass
DrainStopsWitness ==
    \E r \in Runs : cfg.ALL /\ ~cfg.DRY_RUN /\ run[r].pass = 2
                    /\ run[r].pc = "queryEntities"

\* the pass made no progress: the counts after it are not below those before
NoProgress(result) ==
    result.countsAfter.entities + result.countsAfter.relations
        >= result.countsBefore.entities + result.countsBefore.relations

\* C11: the --all loop starts no further pass after a pass that made no
\* progress (the object counts did not decrease); it exits instead.
DrainExitsWithoutProgress ==
    [][\A r \in Runs :
          (LoopDecision(r) /\ NoProgress(run[r].result)) => run'[r].pc # "pass"]_vars

\* an object of the space that the pass would delete
Matching(sp) ==
    sp.relations # <<>> \/ \E k \in 1..Len(sp.entities) : KeepEntity(sp.entities[k].entity)

\* C12: a live --all run leaves the loop through the "pass enumerated zero
\* objects" condition only when the space holds no relation and no entity
\* that passes the filters.
ZeroExitOnlyWhenNothingMatches ==
    [][\A r \in Runs :
          (LoopDecision(r) /\ ~cfg.DRY_RUN /\ run'[r].pc # "pass"
             /\ ~CountsZero(run[r].result.countsAfter)
             /\ run[r].result.opsAttempted = 0)
          => ~Matching(space)]_vars

\* the relations and entities that an edit deletes
DeleteIds(ops) == OpIds(ops, "deleteRelation") \cup OpIds(ops, "deleteEntity")

\* the vote of its run on proposal p is confirmed and the proposal is
\* neither executed nor at the support threshold
LeftPending(p) ==
    /\ proposals[p].by \in proposals[p].votes
    /\ ~proposals[p].executed
    /\ ~ThresholdReached(proposals[p])

\* C13: for a proposal left pending for more votes the run submits no
\* execute transaction, and it proposes none of the deletions of that
\* proposal again, in single-pass and in --all mode (stated for runs in
\* which no call failed and no transaction reverted).
PendingNotRetried ==
    \A p \in 1..Len(proposals) :
        (faults = 0 /\ LeftPending(p)) =>
            /\ ~\E h \in TxIds : txs[h].kind = "execute" /\ txs[h].pid = p
            /\ \A q \in (p + 1)..Len(proposals) :
                  proposals[q].by = proposals[p].by =>
                      DeleteIds(proposals[p].ops) \cap DeleteIds(proposals[q].ops) = {}

\* the batch counters of a pass: all that the pass result and the progress
\* record say about the batches of the pass
Accounting(rr) == [batchesCompleted |-> rr.completedBatches,
                   batchesFailed |-> rr.failedBatches]

\* C14: a governed batch left pending for more votes is counted as completed,
\* and the batch accounting after it differs from the accounting after a
\* batch whose proposal executed and from the accounting after a failed batch.
PendingReportedSeparately ==
    [][\A r \in Runs :
          (run[r].pc = "readThreshold" /\ run[r].phase = "pass"
             /\ run'[r].thresholdReached = "false")
          => /\ run'[r].completedBatches = run[r].completedBatches + 1
             /\ Accounting(run'[r]) # Accounting(FailBatch(run[r]))
             /\ Accounting(run'[r])
                   # Accounting(CompleteBatch([run[r] EXCEPT !.executed = "true"]))]_vars

\* the edits (proposals and published edits) of run r in submission order
EditsOf(r) ==
    SelectSeq([h \in 1..Len(txs) |->
                  IF txs[h].kind = "propose" THEN proposals[txs[h].pid].ops
                  ELSE IF txs[h].kind = "publish" THEN txs[h].ops
                  ELSE <<>>],
              LAMBDA ops : ops # <<>>)

CreatesAuthor(ops) == OpIds(ops, "createAccount") # {}

SubmitsEdit(r) == Submits(r, "propose") \/ Submits(r, "publish")

SubmittedOps ==
    IF txs'[Len(txs')].kind = "propose"
    THEN proposals'[Len(proposals')].ops
    ELSE txs'[Len(txs')].ops

TotalLimitRespected ==
    [][\A r \in Runs :
          (run[r].pc = "queryRelations" /\ run'[r].pc \notin {"queryRelations", "exit"}
             /\ ~cfg.DRY_RUN /\ cfg.TOTAL_LIMIT # NoNumber /\ cfg.TOTAL_LIMIT >= 0)
          => /\ Len(run'[r].relations) = Min(cfg.TOTAL_LIMIT, Len(space.relations))
             /\ Len(run'[r].entities) <= cfg.TOTAL_LIMIT - Len(run'[r].relations)]_vars

\* an Account entity or an entity named after a wallet address
IsProtected(e) == ACCOUNT_TYPE_ID \in e.typeIds \/ e.name = WalletName

\* the entities that the edits submitted so far delete
DeletedByEdits ==
    UNION { OpIds(proposals[p].ops, "deleteEntity") : p \in 1..Len(proposals) }
    \cup UNION { OpIds(txs[h].ops, "deleteEntity") : h \in TxIds }

\* no pass has planned, and no edit deletes, a protected entity
NoProtectedPlanned ==
    /\ \A r \in Runs : \A k \in 1..Len(run[r].entities) : ~IsProtected(run[r].entities[k])
    /\ \A e \in Range(Entities(space.entities)) : IsProtected(e) => e.id \notin DeletedByEdits

PassReturns(r) == run[r].pc # "afterPass" /\ run'[r].pc = "afterPass"

\* C18: every pass that returns (completed, or ended early by dry-run,
\* nothing to delete or a declined confirmation) appends exactly one record
\* to the progress log, and nothing else appends to it.
OneRecordPerPass ==
    [][/\ \A r \in Runs : PassReturns(r) => Len(progressLog') = Len(progressLog) + 1
       /\ progressLog' # progressLog => \E r \in Runs : PassReturns(r)]_vars

\* the ops of the edit that transaction h belongs to
EditOps(h) == IF txs[h].kind = "publish" THEN txs[h].ops ELSE proposals[txs[h].pid].ops

\* no edit submitted so far deletes anything
NoDeletionEdits == \A h \in TxIds : DeleteIds(EditOps(h)) = {}

\* a live --all run against a space that has no deletable objects and had
\* none when the run started (the space changes through edits only)
EmptyDrain == cfg.ALL /\ ~cfg.DRY_RUN /\ ~Matching(space) /\ NoDeletionEdits

\* the run plans nothing and leaves the loop after its first pass, which
\* returns opsAttempted = 0
PlansNothing ==
    \A r \in active :
        /\ run[r].relations = <<>> /\ run[r].entities = <<>> /\ run[r].batches = <<>>
        /\ run[r].pass <= 1
        /\ run[r].hasResult =>
              /\ run[r].result.opsAttempted = 0
              /\ run[r].result.batchesCompleted = 0 /\ run[r].result.batchesFailed = 0

LivePassPlan(sp) ==
    LET rr        == [IdleRun EXCEPT !.chunkLimit = PassChunkLimit]
        entities0 == EnumeratedEntities(sp, rr)
        listed    == listAll(sp.relations, PerTypeLimit(rr))
    IN  [relations |-> Len(TrimRelations(listed, entities0, EffectiveLimit(rr))),
         entities  |-> Len(TrimEntities(listed, entities0, EffectiveLimit(rr)))]

\* C20: the counts that a --dry-run run prints in its summary are the
\* numbers of relations and entities that a live pass with the same flags
\* plans for the same space.
DryRunMatchesLivePlan ==
    [][\A r \in Runs :
          run'[r].drySummary # run[r].drySummary =>
              run'[r].drySummary = LivePassPlan(space)]_vars

IsSuffix(t, s) == Len(t) <= Len(s) /\ SubSeq(s, Len(s) - Len(t) + 1, Len(s)) = t

\* the first transaction of a batch is submitted when every earlier batch of
\* the pass has finished and the delay was waited after each of them, and it
\* carries the ops of the next batch of the plan
BatchesInOrderStep ==
    \A r \in Runs :
        (SubmitsEdit(r) /\ run[r].phase = "pass") =>
            LET rr == run[r]
            IN  /\ rr.batches = chunk(Deletions(rr.relations, rr.entities), cfg.BATCH_SIZE)
                /\ rr.completedBatches + rr.failedBatches = rr.i
                /\ rr.slept = [k \in 1..rr.i |-> SLEEP_BETWEEN_BATCHES_MS]
                /\ IsSuffix(BatchOps(rr.batches[rr.i + 1]), SubmittedOps)

\* the batch loop of the pass has ended
LoopEnded(rr) == rr.pc = "postVerify" /\ rr.batches # <<>>

\* C21 as stated: batches are driven one at a time in planner order, and the
\* fixed delay is waited after each batch of the pass.
DelayAfterEachBatch ==
    /\ [][BatchesInOrderStep]_vars
    /\ [](\A r \in Runs :
            LoopEnded(run[r]) =>
                run[r].slept = [k \in 1..Len(run[r].batches) |-> SLEEP_BETWEEN_BATCHES_MS])

\* C21 amended: batches are driven one at a time in planner order (the first
\* transaction of batch i+1 is submitted only after batch i has finished,
\* successfully or not), and the fixed delay (4 s governed, 2 s direct) is
\* waited after each batch except the last batch of the pass.
DelayBetweenBatches ==
    /\ [][BatchesInOrderStep]_vars
    /\ [](\A r \in Runs :
            LoopEnded(run[r]) =>
                run[r].slept = [k \in 1..(Len(run[r].batches) - 1) |->
                                   SLEEP_BETWEEN_BATCHES_MS])

\* a pass of two batches has ended: the second batch was submitted after the
\* first one had failed or completed, and one delay was waited
DelayBetweenBatchesWitness ==
    \E r \in Runs :
        /\ LoopEnded(run[r]) /\ Len(run[r].batches) = 2
        /\ Len(run[r].slept) = 1
        /\ Cardinality({h \in TxIds : txs[h].by = r
                                      /\ txs[h].kind \in {"propose", "publish"}}) = 2

\* the step turns the exit status of run r into a failure
ExitFailure(r) == run[r].exitCode # 1 /\ run'[r].exitCode = 1

\* an awaited call of run r rejects in this step
StepFails(r) == faults' > faults /\ run'[r] # run[r]

\* start-up, the before-counts and the two listings of a pass
EnumerationPcs == {"main", "pass", "queryEntities", "queryRelations"}

Expected(upstream, limit) ==
    IF limit # NoNumber THEN JsSlice(upstream, 0, limit) ELSE upstream

\* every page request asks for at least one item, at most 200 items and at
\* most the remaining cap
RequestsBounded(l) ==
    \A k \in 1..Len(l.requests) :
        /\ l.requests[k].first \in 1..PageSize
        /\ l.limit # NoNumber => l.requests[k].first <= l.limit - l.requests[k].soFar

\* C23: a listing call returns the upstream nodes in upstream order, without
\* duplicates or omissions, up to the page that reports hasNextPage = false,
\* truncated to the cap when one is given; every page request asks for at
\* most 200 items and at most the remaining cap; an empty space gives the
\* empty list.
ListingComplete ==
    listing.returned =>
        /\ listing.result = Expected(listing.upstream, listing.limit)
        /\ listing.result = listAll(listing.upstream, listing.limit)
        /\ RequestsBounded(listing)

\* the tool results in which propose_dao_edit or clear_session emptied the session
Consumed(results) ==
    {k \in 1..Len(results) :
        ~results[k].isError /\ results[k].tool \in {"propose_dao_edit", "clear_session"}}

\* the ops of the latest successful publish_edit that no later successful
\* propose_dao_edit or clear_session has consumed (or no ops)
LatestPublished(results) ==
    LET pubs == {k \in 1..Len(results) :
                    /\ ~results[k].isError /\ results[k].tool = "publish_edit"
                    /\ \A j \in Consumed(results) : j < k}
    IN  IF pubs = {} THEN <<>> ELSE results[SetMax(pubs)].ops

\* propose_dao_edit starts in this step
ProposeCalled ==
    /\ mcp.call.tool = "none"
    /\ \/ mcp'.call.tool = "propose_dao_edit"
       \/ /\ Len(mcp'.results) = Len(mcp.results) + 1
          /\ mcp'.results[Len(mcp'.results)].tool = "propose_dao_edit"

ProposeSucceeded ==
    /\ Len(mcp'.results) = Len(mcp.results) + 1
    /\ mcp'.results[Len(mcp'.results)].tool = "propose_dao_edit"
    /\ ~mcp'.results[Len(mcp'.results)].isError

LastResult == mcp.results[Len(mcp.results)]

\* C24: propose_dao_edit proposes the pending session ops when there are
\* any and otherwise the ops of the latest successful publish_edit; after a
\* successful propose_dao_edit the pending ops and the last-published ops
\* are empty, and a propose_dao_edit repeated right after it fails with
\* "No ops accumulated" and sends no transaction.
ProposeContinuity ==
    [][/\ (ProposeCalled /\ mcp'.call.tool = "propose_dao_edit") =>
            mcp'.call.ops = IF mcp.ops # <<>> THEN mcp.ops
                            ELSE LatestPublished(mcp.results)
       /\ (Len(mcp'.sent) > Len(mcp.sent)
           /\ mcp'.sent[Len(mcp'.sent)].tool = "propose_dao_edit") =>
            mcp'.sent[Len(mcp'.sent)].ops = AccountOps \o mcp.call.ops
       /\ ProposeSucceeded => (mcp'.ops = <<>> /\ mcp'.lastPublishedOps = <<>>)
       /\ (ProposeCalled /\ mcp.results # <<>> /\ mcp.ops = <<>>
           /\ LastResult.tool = "propose_dao_edit" /\ ~LastResult.isError) =>
            /\ mcp'.results[Len(mcp'.results)].isError
            /\ mcp'.results[Len(mcp'.results)].error = "No ops accumulated."
            /\ mcp'.sent = mcp.sent
            /\ mcp'.call.tool = "none"]_vars

\* publish_edit succeeded, then propose_dao_edit proposed the published ops,
\* then a repeated propose_dao_edit failed with "No ops accumulated"
ProposeContinuityWitness ==
    /\ Len(mcp.results) = 3
    /\ mcp.results[1].tool = "publish_edit" /\ ~mcp.results[1].isError
    /\ mcp.results[2].tool = "propose_dao_edit" /\ ~mcp.results[2].isError
    /\ mcp.results[2].ops = mcp.results[1].ops
    /\ mcp.results[3].tool = "propose_dao_edit"
    /\ mcp.results[3].error = "No ops accumulated."
    /\ Len(mcp.sent) = 2

\* the characters of the input that are not dashes
Undashed(str) == SelectSeq(str, LAMBDA c : c # "-")

\* the lower-case characters of the model
IsLower(str) == \A k \in 1..Len(str) : str[k] \notin {"A", "B", "C", "D", "E", "F"}

\* str is a dashed UUID: 36 characters with dashes at 9, 14, 19 and 24 only
IsDashedUUID(str) ==
    /\ Len(str) = 36
    /\ \A k \in 1..36 : (str[k] = "-") <=> (k \in {9, 14, 19, 24})

\* a and b are the same string up to letter case
SameUpToCase(a, b) ==
    /\ Len(a) = Len(b)
    /\ \A k \in 1..Len(a) : a[k] = b[k] \/ UpperChar(a[k]) = b[k] \/ a[k] = UpperChar(b[k])

\* C25: for a 32-digit id in any letter case, toDashlessUUID(toDashedUUID(x))
\* is lower-case x; normalizeToUUID gives the same dashed lower-case UUID for
\* the dashed and the dashless way of writing x and is idempotent; an input
\* that does not have 32 characters after removing the dashes is rejected.
UuidCanonical ==
    LET x == Undashed(uuid.input)
    IN  IF Len(x) = 32
        THEN /\ uuid.dashed # Unapplied =>
                  (uuid.dashed.ok /\ IsDashedUUID(uuid.dashed.value))
             /\ uuid.roundTrip # Unapplied =>
                  /\ uuid.roundTrip.ok
                  /\ IsLower(uuid.roundTrip.value)
                  /\ SameUpToCase(uuid.roundTrip.value, x)
             /\ uuid.normalized # Unapplied =>
                  /\ uuid.normalized.ok
                  /\ IsDashedUUID(uuid.normalized.value)
                  /\ IsLower(uuid.normalized.value)
                  /\ SameUpToCase(Undashed(uuid.normalized.value), x)
                  /\ uuid.normalized = normalizeToUUID(x)
                  /\ uuid.normalized = normalizeToUUID(Written(x, "dashed"))
             /\ uuid.normalizedTwice # Unapplied =>
                  uuid.normalizedTwice = uuid.normalized
        ELSE /\ uuid.dashed # Unapplied => ~uuid.dashed.ok
             /\ uuid.normalized # Unapplied => ~uuid.normalized.ok

\* an upper-case dashed id went through the round trip and through
\* normalizeToUUID twice
UuidWitness ==
    /\ uuid.input = Written(WithCase(TestId, 1..32), "dashed")
    /\ uuid.roundTrip = Returned(TestId)
    /\ uuid.normalizedTwice = Returned(Written(TestId, "dashed"))

\* run r submits a transaction in this step
SubmitsTx(r) == Len(txs') = Len(txs) + 1 /\ txs'[Len(txs')].by = r

\* the pass of run r needs the operator's confirmation
NeedsConfirmation(r) ==
    /\ ~cfg.DRY_RUN /\ ~cfg.YES
    /\ run[r].phase = "pass"
    /\ PlannedItems(run[r]) > CONFIRM_THRESHOLD

\* C26: in a live run without --yes, a pass that plans more than 1,000 items
\* submits no transaction unless the operator answered yes to the prompt, in
\* single-pass and in --all mode; after a declined prompt the run ends
\* without a transaction and without the rename.
ConfirmedBeforeLargePass ==
    /\ [][\A r \in Runs :
            (SubmitsTx(r) /\ NeedsConfirmation(r)) => run[r].ok = "yes"]_vars
    /\ [](\A r \in Runs :
            run[r].ok = "no" =>
                /\ run[r].pc \in {"afterPass", "exit"}
                /\ run[r].phase = "pass"
                /\ \A h \in TxIds : txs[h].by # r)

\* the comparable key of a type id: its dashless lower-case form
CanonicalTypeId(t) ==
    IF t \in {DashedAccountTypeId, UpperAccountTypeId} THEN ACCOUNT_TYPE_ID ELSE t

\* the entity has the Account type in some representation
HasAccountType(e) == \E t \in e.typeIds : CanonicalTypeId(t) = ACCOUNT_TYPE_ID

\* C27: the protected-entity filter and the author lookup recognise the
\* Account type in every representation of its id: an entity whose typeIds
\* hold the dashed or the upper-case form is never planned for deletion
\* (unless --include-accounts is given) and is reused as the author.
AccountTypeInAnyRepresentation ==
    /\ [](\A r \in Runs :
            (cfg.script = "dao" \/ ~cfg.INCLUDE_ACCOUNTS) =>
                \A k \in 1..Len(run[r].entities) : ~HasAccountType(run[r].entities[k]))
    /\ [][\A r \in Runs :
            (/\ run[r].pc = "resolveAuthor" /\ run'[r].pc = "batch"
             /\ faults' = faults
             /\ \E e \in Range(Entities(space.entities)) : HasAccountType(e)) =>
                run'[r].accountOps = <<>>]_vars

\* an entity with this id exists in the space
ExistsInSpace(id) == \E k \in 1..Len(space.entities) : id \in SegmentIds(space.entities[k])

\* C28: whenever an edit is submitted with author id A, an entity with id A
\* exists in the space (it was there before the pass, or an earlier edit that
\* created it took effect) or the ops that create A are in that same edit.
AuthorExistsWhenReferenced ==
    [][\A r \in Runs :
          SubmitsEdit(r) =>
              LET A == txs'[Len(txs')].author
              IN  \/ ExistsInSpace(A)
                  \/ A \in OpIds(SubmittedOps, "createAccount")]_vars

\* the relations that the batches before the current one of the pass were to delete
EarlierRelationIds(rr) ==
    UNION {OpIds(BatchOps(rr.batches[k]), "deleteRelation") : k \in 1..rr.i}

\* C29: within a pass an edit that deletes an entity is submitted only when
\* the relation deletions of the earlier batches of the pass have taken
\* effect: no earlier relation batch has failed or is still pending.
EntitiesOnlyAfterRelationsGone ==
    [][\A r \in Runs :
          (/\ SubmitsEdit(r) /\ run[r].phase = "pass"
           /\ OpIds(SubmittedOps, "deleteEntity") # {}) =>
              \A k \in 1..Len(space.relations) :
                  space.relations[k].id \notin EarlierRelationIds(run[r])]_vars

\* C30: chunk() returns after finitely many steps for every list and every
\* integer batch size that the CLI parser accepts, 0 and negative values
\* included.
ChunkTerminates == <>chunking.returned

====
